---- MODULE Spec2Model ----
(***************************************************************************)
(* Promises.cancellable (src/unnamed/part_000) as a state machine over the *)
(* JavaScript run-to-completion event loop: one wrapped operation O, the   *)
(* wrapper promise W returned by cancellable, the timer or the             *)
(* cancellation-token listener armed by the call, and the microtask queue  *)
(* on which promise reactions run.                                          *)
(***************************************************************************)
EXTENDS Integers, Sequences, FiniteSets, TLC

\* Largest timeout (ms) a call is made with, and how far the clock runs
\* past the largest timeout.
MaxDelay == 2
MaxSlack == 1

VARIABLES
    pc,               \* "start" before the call of cancellable, "called" after
    timeoutOrToken,   \* the argument: [kind |-> "number" | "token", ms |-> Nat]
    options,          \* [cancelMessage, onDidCancel]
    promises,         \* heap: promise id -> [state, value, resolved, settles]
    fulfilled,        \* local `fulfilled` of the executor
    timer,            \* local `timer`: "undefined", "armed", "fired", "cleared"
    timerDue,         \* clock value from which the armed timer may fire
    listeners,        \* listeners attached to the token's onCancellationRequested
    tokenCancelled,   \* the token's cancellation has been requested
    microtasks,       \* queue of promise jobs
    now,              \* clock
    armed,            \* bounds armed so far (setTimeout + onCancellationRequested)
    onDidCancelCalls, \* invocations of options.onDidCancel
    errorsCreated,    \* CancellationError objects constructed
    log               \* order of the events seen so far

vars == <<pc, timeoutOrToken, options, promises, fulfilled, timer, timerDue,
          listeners, tokenCancelled, microtasks, now, armed, onDidCancelCalls,
          errorsCreated, log>>

----------------------------------------------------------------------------
\* Values that promises settle with.  Every value has the same shape.

Undefined == [type |-> "undefined", promise |-> "none", message |-> ""]
OpValue == [type |-> "value", promise |-> "none", message |-> "T"]
OpError == [type |-> "Error", promise |-> "none", message |-> "ex"]
FallbackValue == [type |-> "value", promise |-> "none", message |-> "fallback"]
CallbackError == [type |-> "Error", promise |-> "none", message |-> "callback"]

\* class CancellationError<T>: the promise it was built with, and the message.
CancellationError(promise, message) ==
    [type |-> "CancellationError", promise |-> promise, message |-> message]

\* instanceof Promises.CancellationError
IsCancellationError(v) == v.type = "CancellationError"

\* options.cancelMessage: "<undefined>" stands for an absent option.
CancelMessages == {"<undefined>", "", "custom"}
\* options.onDidCancel: absent, or a callback that calls neither function,
\* resolve(fallback), or reject(error).
OnDidCancels == {"<undefined>", "noop", "resolve", "reject"}

\* The message option dropped: the default text is always used.
MessageOr_AlwaysDefault(cancelMessage, dflt) == dflt

\* `options.cancelMessage || dflt`: undefined and '' are falsy.
MessageOr(cancelMessage, dflt) ==
    IF cancelMessage \in {"<undefined>", ""} THEN dflt ELSE cancelMessage

----------------------------------------------------------------------------
\* Promise objects.

Pending == [state |-> "pending", value |-> Undefined, resolved |-> FALSE, settles |-> 0]

Settled(p) == p.state \in {"fulfilled", "rejected"}

\* The resolving functions of `new Promise((resolve, reject) => ...)`: a call
\* after the first call of either one is ignored.
Settle(ps, id, state, value) ==
    IF ps[id].resolved
        THEN ps
        ELSE [ps EXCEPT ![id] = [state |-> state, value |-> value,
                                 resolved |-> TRUE, settles |-> ps[id].settles + 1]]

Reject(ps, id, reason) == Settle(ps, id, "rejected", reason)
Resolve(ps, id, value) == Settle(ps, id, "fulfilled", value)

\* resolve(thenable): the promise is locked to the thenable and a job that
\* calls thenable.then is queued; returns TRUE when the call is not ignored.
LocksIn(ps, id) == ~ps[id].resolved
ResolveWith(ps, id) == IF ps[id].resolved THEN ps ELSE [ps EXCEPT ![id].resolved = TRUE]

----------------------------------------------------------------------------
\* The promise passed to cancellable, and the promise cancellable returns.
promise == "O"
wrapper == "W"

\* OnBound rejecting with a plain Error instead of a CancellationError.
OnBound_PlainError(ps, dflt) ==
    IF options.onDidCancel = "<undefined>"
        THEN Settle(ps, "W", "rejected",
                    [type |-> "Error", promise |-> "none",
                     message |-> MessageOr(options.cancelMessage, dflt)])
        ELSE IF options.onDidCancel = "resolve" THEN Resolve(ps, "W", FallbackValue)
        ELSE IF options.onDidCancel = "reject" THEN Reject(ps, "W", CallbackError)
        ELSE ps

\* OnBound handing the wrapper, not the wrapped promise, to the error.
OnBound_WrongPromise(ps, dflt) ==
    IF options.onDidCancel = "<undefined>"
        THEN Reject(ps, "W", CancellationError("W", MessageOr(options.cancelMessage, dflt)))
        ELSE IF options.onDidCancel = "resolve" THEN Resolve(ps, "W", FallbackValue)
        ELSE IF options.onDidCancel = "reject" THEN Reject(ps, "W", CallbackError)
        ELSE ps

\* OnBound that never looks at options.onDidCancel.
OnBound_IgnoresCallback(ps, dflt) ==
    Reject(ps, "W", CancellationError("O", MessageOr(options.cancelMessage, dflt)))

\* OnBound whose else branch builds the error but does not reject with it.
OnBound_NoReject(ps, dflt) ==
    IF options.onDidCancel = "resolve" THEN Resolve(ps, "W", FallbackValue)
    ELSE IF options.onDidCancel = "reject" THEN Reject(ps, "W", CallbackError)
    ELSE ps

\* Body of the timeout callback and of the cancellation listener once it
\* goes ahead: options.onDidCancel(resolve, reject) when it is a function,
\* else reject(new CancellationError(promise, options.cancelMessage || dflt)).
OnBound(ps, dflt) ==
    CASE options.onDidCancel = "<undefined>" ->
            Reject(ps, wrapper,
                   CancellationError(promise, MessageOr(options.cancelMessage, dflt)))
      [] options.onDidCancel = "noop" -> ps
      [] options.onDidCancel = "resolve" -> Resolve(ps, wrapper, FallbackValue)
      [] options.onDidCancel = "reject" -> Reject(ps, wrapper, CallbackError)

BoundEffects ==
    /\ onDidCancelCalls' =
           IF options.onDidCancel # "<undefined>" THEN onDidCancelCalls + 1
           ELSE onDidCancelCalls
    /\ errorsCreated' =
           IF options.onDidCancel = "<undefined>" THEN errorsCreated + 1
           ELSE errorsCreated

\* The job queued for a reaction registered with promise.then(onFulfilled, onRejected).
ReactionJob(p) == IF p.state = "fulfilled" THEN "onFulfilled" ELSE "onRejected"

----------------------------------------------------------------------------
\* Hovers.detailsMessage (src/src/hovers/hovers.ts): one round of the two
\* enrichment lookups, getAutoLinkedIssues and getPullRequestForCommit,
\* joined by Promise.all.

\* Step of the hover clock (ms), its last value, and the longest list of
\* remotes and of issue queries in one result.
TickMs == 125
MaxHoverTime == 500
MaxRemotes == 1
MaxIssues == 1

\* `const timeout = 250` of getAutoLinkedIssues and the `{ timeout: 250 }`
\* of getPullRequestForCommit.
timeout == 250
PullRequestTimeout == 250

VARIABLES
    config,          \* Container.config.hovers and what the template references
    remotes,         \* the remotes of the repository, in order
    maybeConnected,  \* provider.maybeConnected: "undefined", "true", "false"
    loggerDebug,     \* Logger.level === TraceLevel.Debug || Logger.isDebugging
    isUncommitted,   \* commit.isUncommitted
    hpc,             \* detailsMessage: "idle", "awaitAll", "returned", "rejected"
    ipc,             \* getAutoLinkedIssues: "idle", "awaitIssueLinks", "returned"
    ppc,             \* getPullRequestForCommit: "idle", "awaitIsConnected",
                     \*     "awaitPullRequest", "returned", "threw"
    issuesResult,    \* value getAutoLinkedIssues returned
    prResult,        \* value getPullRequestForCommit returned
    calls,           \* the calls made to the collaborators, by name
    operations,      \* the work behind a bounded call, by handle
    diffUris,        \* commit.getPreviousLineDiffUris: "undefined", "pending",
                     \*     "fulfilled", "rejected"
    hnow,            \* clock (ms)
    logs,            \* Logger calls made: {[fn, level, text]}
    roundResult      \* [autolinkedIssues, pr] as detailsMessage received them

hvars == <<config, remotes, maybeConnected, loggerDebug, isUncommitted, hpc,
           ipc, ppc, issuesResult, prResult, calls, operations, diffUris, hnow,
           logs, roundResult>>

\* Values of the hover round.
PullRequest == [type |-> "PullRequest", promise |-> "none", message |-> ""]
LookupError == [type |-> "Error", promise |-> "none", message |-> "lookup failed"]
BooleanValue(b) == [type |-> "boolean", promise |-> "none", message |-> IF b THEN "true" ELSE "false"]
\* A GitRemote, named by its place in remotes.
RemoteValue(i) == [type |-> "GitRemote", promise |-> "none", message |-> "", index |-> i]
\* Map<number, Issue | CancellationError>: one entry per issue query.
Issue == [type |-> "Issue", promise |-> "none", message |-> ""]
IssueQuery(i) == IF i = 1 THEN "issueQuery1" ELSE IF i = 2 THEN "issueQuery2" ELSE "issueQueryN"
IssuesMap(entries) == [type |-> "Map", promise |-> "none", message |-> "", entries |-> entries]

\* A call not made yet.
NoCall == [state |-> "none", value |-> Undefined, issuedAt |-> 0, count |-> 0]

\* remotes.find(r => r.default && r.provider != null): its index, 0 for undefined.
FindRemote(rs) ==
    IF \E i \in 1..Len(rs) : rs[i].default /\ rs[i].provider # "null"
        THEN CHOOSE i \in 1..Len(rs) :
                /\ rs[i].default /\ rs[i].provider # "null"
                /\ \A j \in 1..(i - 1) : ~(rs[j].default /\ rs[j].provider # "null")
        ELSE 0

\* remote?.provider?.hasApi()
HasApi(rs, i) == i # 0 /\ rs[i].provider = "api"

\* The round has not been started: the state of the hover variables while
\* cancellable alone is exercised.
HoversIdle ==
    /\ config = [autolinksEnabled |-> FALSE, autolinksEnhanced |-> FALSE,
                 hasMessage |-> FALSE, pullRequestsEnabled |-> FALSE,
                 hasPullRequest |-> FALSE]
    /\ remotes = <<>>
    /\ maybeConnected = "undefined"
    /\ loggerDebug = FALSE
    /\ isUncommitted = FALSE
    /\ hpc = "idle" /\ ipc = "idle" /\ ppc = "idle"
    /\ issuesResult = Undefined /\ prResult = Undefined
    /\ calls = [issueLinks |-> NoCall, isConnected |-> NoCall, pullRequest |-> NoCall]
    /\ operations = [pullRequest |-> "none"]
    /\ diffUris = "undefined"
    /\ hnow = 0
    /\ logs = {}
    /\ roundResult = <<Undefined, Undefined>>

----------------------------------------------------------------------------
Init ==
    /\ HoversIdle
    /\ pc = "start"
    /\ timeoutOrToken \in
           {[kind |-> "number", ms |-> d] : d \in 0..MaxDelay}
               \cup {[kind |-> "token", ms |-> 0]}
    /\ options \in [cancelMessage : CancelMessages, onDidCancel : OnDidCancels]
    /\ \E o \in {Pending,
                 [Pending EXCEPT !.state = "fulfilled", !.value = OpValue,
                                 !.resolved = TRUE, !.settles = 1],
                 [Pending EXCEPT !.state = "rejected", !.value = OpError,
                                 !.resolved = TRUE, !.settles = 1]} :
           /\ promises = [O |-> o, W |-> Pending]
           /\ log = IF o.state = "fulfilled" THEN <<"fulfils">>
                    ELSE IF o.state = "rejected" THEN <<"rejects">> ELSE <<>>
    /\ fulfilled = FALSE
    /\ timer = "undefined"
    /\ timerDue = 0
    /\ listeners = 0
    /\ tokenCancelled = FALSE
    /\ microtasks = <<>>
    /\ now = 0
    /\ armed = 0
    /\ onDidCancelCalls = 0
    /\ errorsCreated = 0

\* cancellable treating a timeout of 0 as already elapsed: it runs the
\* timeout callback during the call instead of scheduling it.
Cancellable_ZeroImmediate ==
    /\ pc = "start"
    /\ pc' = "called"
    /\ fulfilled' = FALSE
    /\ armed' = armed + 1
    /\ microtasks' = IF promises["O"].state # "pending"
                        THEN Append(microtasks, ReactionJob(promises["O"]))
                        ELSE microtasks
    /\ IF timeoutOrToken.kind = "number" /\ timeoutOrToken.ms = 0
          THEN /\ timer' = "fired"
               /\ promises' = OnBound(promises, "TIMED OUT")
               /\ BoundEffects
               /\ log' = log \o <<"call", "bound">>
               /\ UNCHANGED <<timerDue, listeners>>
          ELSE /\ timer' = IF timeoutOrToken.kind = "number" THEN "armed" ELSE "undefined"
               /\ timerDue' = now + timeoutOrToken.ms
               /\ listeners' = IF timeoutOrToken.kind = "number" THEN listeners
                                ELSE listeners + 1
               /\ log' = Append(log, "call")
               /\ UNCHANGED <<promises, onDidCancelCalls, errorsCreated>>
    /\ UNCHANGED <<timeoutOrToken, options, tokenCancelled, now>>
    /\ UNCHANGED hvars

\* cancellable(promise, timeoutOrToken, options): the executor of the new
\* Promise runs synchronously: it arms the bound and calls promise.then.
Cancellable ==
    /\ pc = "start"
    /\ pc' = "called"
    /\ fulfilled' = FALSE
    /\ IF timeoutOrToken.kind = "number"
          THEN /\ timer' = "armed"
               /\ timerDue' = now + timeoutOrToken.ms
               /\ listeners' = listeners
          ELSE /\ timer' = "undefined"
               /\ timerDue' = timerDue
               /\ listeners' = listeners + 1
    /\ armed' = armed + 1
    /\ microtasks' = IF Settled(promises[promise])
                        THEN Append(microtasks, ReactionJob(promises[promise]))
                        ELSE microtasks
    /\ log' = Append(log, "call")
    /\ UNCHANGED <<timeoutOrToken, options, promises, tokenCancelled, now,
                   onDidCancelCalls, errorsCreated>>
    /\ UNCHANGED hvars

\* The wrapped operation settles by itself; its reaction job is queued.
OperationSettles(state, value) ==
    /\ pc = "called"
    /\ promises[promise].state = "pending"
    /\ promises' = Settle(promises, promise, state, value)
    /\ microtasks' = Append(microtasks, ReactionJob(promises'[promise]))
    /\ log' = Append(log, IF state = "fulfilled" THEN "fulfils" ELSE "rejects")
    /\ UNCHANGED <<pc, timeoutOrToken, options, fulfilled, timer, timerDue,
                   listeners, tokenCancelled, now, armed, onDidCancelCalls,
                   errorsCreated>>
    /\ UNCHANGED hvars

OperationFulfils == OperationSettles("fulfilled", OpValue)
OperationRejects == OperationSettles("rejected", OpError)

\* The settlement handlers leaving the timer armed.
ClearTimeout_Forgotten(t) == t

\* clearTimeout(timer) under `if (timer !== undefined)`.
ClearTimeout(t) == IF t = "armed" THEN "cleared" ELSE t

\* onFulfilled that disarms the timer but does not resolve the wrapper.
OnFulfilled_NoResolve ==
    /\ microtasks # <<>> /\ Head(microtasks) = "onFulfilled"
    /\ fulfilled' = TRUE
    /\ timer' = ClearTimeout(timer)
    /\ microtasks' = Tail(microtasks)
    /\ UNCHANGED <<pc, timeoutOrToken, options, promises, timerDue, listeners,
                   tokenCancelled, now, armed, onDidCancelCalls, errorsCreated, log>>
    /\ UNCHANGED hvars

\* onFulfilled of promise.then: fulfilled = true; clearTimeout; resolve(promise).
OnFulfilled ==
    /\ microtasks # <<>> /\ Head(microtasks) = "onFulfilled"
    /\ fulfilled' = TRUE
    /\ timer' = ClearTimeout(timer)
    /\ promises' = ResolveWith(promises, wrapper)
    /\ microtasks' = Tail(microtasks) \o
           (IF LocksIn(promises, wrapper) THEN <<"thenableJob">> ELSE <<>>)
    /\ UNCHANGED <<pc, timeoutOrToken, options, timerDue, listeners,
                   tokenCancelled, now, armed, onDidCancelCalls, errorsCreated, log>>
    /\ UNCHANGED hvars

\* onRejected that wraps the reason in a new Error before rejecting.
OnRejected_Wrapped ==
    /\ microtasks # <<>> /\ Head(microtasks) = "onRejected"
    /\ fulfilled' = TRUE
    /\ timer' = ClearTimeout(timer)
    /\ promises' = Reject(promises, "W",
                          [type |-> "Error", promise |-> "none", message |-> "wrapped"])
    /\ microtasks' = Tail(microtasks)
    /\ UNCHANGED <<pc, timeoutOrToken, options, timerDue, listeners,
                   tokenCancelled, now, armed, onDidCancelCalls, errorsCreated, log>>
    /\ UNCHANGED hvars

\* onRejected of promise.then: fulfilled = true; clearTimeout; reject(ex).
OnRejected ==
    /\ microtasks # <<>> /\ Head(microtasks) = "onRejected"
    /\ fulfilled' = TRUE
    /\ timer' = ClearTimeout(timer)
    /\ promises' = Reject(promises, wrapper, promises[promise].value)
    /\ microtasks' = Tail(microtasks)
    /\ UNCHANGED <<pc, timeoutOrToken, options, timerDue, listeners,
                   tokenCancelled, now, armed, onDidCancelCalls, errorsCreated, log>>
    /\ UNCHANGED hvars

\* resolve(promise) with a thenable: the queued job calls promise.then with
\* the wrapper's resolving functions; promise is settled, so the reaction is
\* queued at once.
ThenableJob ==
    /\ microtasks # <<>> /\ Head(microtasks) = "thenableJob"
    /\ microtasks' = Append(Tail(microtasks), "adopt")
    /\ UNCHANGED <<pc, timeoutOrToken, options, promises, fulfilled, timer,
                   timerDue, listeners, tokenCancelled, now, armed,
                   onDidCancelCalls, errorsCreated, log>>
    /\ UNCHANGED hvars

\* The wrapper takes the state and the value of the promise it is locked to.
Adopt ==
    /\ microtasks # <<>> /\ Head(microtasks) = "adopt"
    /\ microtasks' = Tail(microtasks)
    /\ promises' = [promises EXCEPT ![wrapper].state = promises[promise].state,
                                    ![wrapper].value = promises[promise].value,
                                    ![wrapper].settles = @ + 1]
    /\ UNCHANGED <<pc, timeoutOrToken, options, fulfilled, timer, timerDue,
                   listeners, tokenCancelled, now, armed, onDidCancelCalls,
                   errorsCreated, log>>
    /\ UNCHANGED hvars

\* The setTimeout callback: a task of its own, run when the delay has
\* elapsed and no microtask is left from the task before.
TimerFires ==
    /\ pc = "called"
    /\ timer = "armed"
    /\ now >= timerDue
    /\ microtasks = <<>>
    /\ timer' = "fired"
    /\ promises' = OnBound(promises, "TIMED OUT")
    /\ BoundEffects
    /\ log' = Append(log, "bound")
    /\ UNCHANGED <<pc, timeoutOrToken, options, fulfilled, timerDue, listeners,
                   tokenCancelled, microtasks, now, armed>>
    /\ UNCHANGED hvars

\* The listener given to onCancellationRequested.
OnCancellationRequested(ps) ==
    IF fulfilled THEN ps ELSE OnBound(ps, "CANCELLED")

\* Cancellation of the token is requested by running code (in any task or
\* microtask): the event fires once, synchronously, and the token then
\* releases its listeners.
CancellationRequested ==
    /\ pc = "called"
    /\ timeoutOrToken.kind = "token"
    /\ ~tokenCancelled
    /\ tokenCancelled' = TRUE
    /\ promises' = IF listeners > 0 THEN OnCancellationRequested(promises) ELSE promises
    /\ IF listeners > 0 /\ ~fulfilled
          THEN BoundEffects
          ELSE UNCHANGED <<onDidCancelCalls, errorsCreated>>
    /\ listeners' = 0
    /\ log' = Append(log, "bound")
    /\ UNCHANGED <<pc, timeoutOrToken, options, fulfilled, timer, timerDue,
                   microtasks, now, armed>>
    /\ UNCHANGED hvars

\* Time passes; the clock of the model stops after the last timeout.
Tick ==
    /\ pc = "called"
    /\ now < MaxDelay + MaxSlack
    /\ now' = now + 1
    /\ UNCHANGED <<pc, timeoutOrToken, options, promises, fulfilled, timer,
                   timerDue, listeners, tokenCancelled, microtasks, armed,
                   onDidCancelCalls, errorsCreated, log>>
    /\ UNCHANGED hvars

Next ==
    \/ Cancellable
    \/ OperationFulfils
    \/ OperationRejects
    \/ OnFulfilled
    \/ OnRejected
    \/ ThenableJob
    \/ Adopt
    \/ TimerFires
    \/ CancellationRequested
    \/ Tick

Spec == Init /\ [][Next]_vars

\* The event loop runs every queued promise job and every timer whose delay
\* has elapsed; the clock does not stop before the last timeout.
FairSpec ==
    /\ Spec
    /\ WF_vars(OnFulfilled)
    /\ WF_vars(OnRejected)
    /\ WF_vars(ThenableJob)
    /\ WF_vars(Adopt)
    /\ WF_vars(TimerFires)
    /\ WF_vars(Tick)

----------------------------------------------------------------------------
\* The hover round.

\* cancellable is not exercised in a hover round: its variables stay put.
CancellableUnused ==
    /\ pc = "start"
    /\ timeoutOrToken = [kind |-> "number", ms |-> 0]
    /\ options = [cancelMessage |-> "<undefined>", onDidCancel |-> "<undefined>"]
    /\ promises = [O |-> Pending, W |-> Pending]
    /\ fulfilled = FALSE
    /\ timer = "undefined"
    /\ timerDue = 0
    /\ listeners = 0
    /\ tokenCancelled = FALSE
    /\ microtasks = <<>>
    /\ now = 0
    /\ armed = 0
    /\ onDidCancelCalls = 0
    /\ errorsCreated = 0
    /\ log = <<>>

RemoteKinds == [default : BOOLEAN, provider : {"null", "noApi", "api"}]

HInit ==
    /\ CancellableUnused
    /\ config \in [autolinksEnabled : BOOLEAN, autolinksEnhanced : BOOLEAN,
                   hasMessage : BOOLEAN, pullRequestsEnabled : BOOLEAN,
                   hasPullRequest : BOOLEAN]
    /\ remotes \in UNION {[1..n -> RemoteKinds] : n \in 0..MaxRemotes}
    /\ maybeConnected \in {"undefined", "true", "false"}
    /\ loggerDebug \in BOOLEAN
    /\ isUncommitted \in BOOLEAN
    /\ hpc = "idle" /\ ipc = "idle" /\ ppc = "idle"
    /\ issuesResult = Undefined /\ prResult = Undefined
    /\ calls = [issueLinks |-> NoCall, isConnected |-> NoCall, pullRequest |-> NoCall]
    /\ operations = [pullRequest |-> "none"]
    /\ diffUris = "undefined"
    /\ hnow = 0
    /\ logs = {}
    /\ roundResult = <<Undefined, Undefined>>

\* Logger.debug / Logger.error calls.
LogEntry(fn, level, text) == [fn |-> fn, level |-> level, text |-> text]

\* A call handed to a collaborator at the current time.
Issue_(c) == [state |-> "pending", value |-> Undefined, issuedAt |-> hnow,
              count |-> c.count + 1]

\* The first test of getAutoLinkedIssues without its `enhanced` clause.
AutolinksWanted_IgnoresEnhanced(cfg) ==
    ~(~cfg.autolinksEnabled \/ ~cfg.hasMessage)

\* The first test of getAutoLinkedIssues: autolinks enabled and enhanced and
\* the template has 'message'.
AutolinksWanted(cfg) ==
    ~(~cfg.autolinksEnabled \/ ~cfg.autolinksEnhanced \/ ~cfg.hasMessage)

\* The first test of getPullRequestForCommit: pull requests enabled and the
\* template has one of the pull-request tokens.
PullRequestWanted(cfg) ==
    ~(~cfg.pullRequestsEnabled \/ ~cfg.hasPullRequest)

\* getIssueLinks is reached: both tests of getAutoLinkedIssues pass.
IssuesGate == AutolinksWanted(config) /\ FindRemote(remotes) # 0

\* hasApi() holds of the default remote's provider.
PullRequestGate == PullRequestWanted(config) /\ HasApi(remotes, FindRemote(remotes))

\* The not-connected return without the remote.
AfterConnected_ForgetsRemote(connected, cs, ops, lg) ==
    IF connected # "true"
        THEN [ppc |-> "returned", value |-> Undefined,
              calls |-> cs, operations |-> ops,
              logs |-> lg \cup {LogEntry("getPullRequestForCommit", "debug", "completed")}]
        ELSE [ppc |-> "awaitPullRequest", value |-> Undefined,
              calls |-> [cs EXCEPT !.pullRequest = Issue_(cs.pullRequest)],
              operations |-> [ops EXCEPT !.pullRequest = "pending"],
              logs |-> lg]

\* getPullRequestForCommit from `const { provider } = remote` on, once
\* `connected` is known ("true" / "false"): the new ppc, value, call and logs.
AfterConnected(connected, cs, ops, lg) ==
    IF connected # "true"
        THEN [ppc |-> "returned", value |-> RemoteValue(FindRemote(remotes)),
              calls |-> cs, operations |-> ops,
              logs |-> lg \cup {LogEntry("getPullRequestForCommit", "debug", "completed")}]
        ELSE [ppc |-> "awaitPullRequest", value |-> Undefined,
              calls |-> [cs EXCEPT !.pullRequest = Issue_(cs.pullRequest)],
              operations |-> [ops EXCEPT !.pullRequest = "pending"],
              logs |-> lg]

\* getPullRequestForCommit up to its first await (or its return).
StartPullRequest(cs, ops, lg) ==
    IF ~PullRequestGate
        THEN [ppc |-> "returned", value |-> Undefined, calls |-> cs, operations |-> ops,
              logs |-> lg \cup {LogEntry("getPullRequestForCommit", "debug", "completed")}]
        ELSE IF maybeConnected = "undefined"
            THEN [ppc |-> "awaitIsConnected", value |-> Undefined,
                  calls |-> [cs EXCEPT !.isConnected = Issue_(cs.isConnected)],
                  operations |-> ops, logs |-> lg]
            ELSE AfterConnected(maybeConnected, cs, ops, lg)

\* getAutoLinkedIssues up to its first await (or its return).
StartIssues(cs, lg) ==
    IF ~IssuesGate
        THEN [ipc |-> "returned", value |-> Undefined, calls |-> cs,
              logs |-> lg \cup {LogEntry("getAutoLinkedIssues", "debug", "completed")}]
        ELSE [ipc |-> "awaitIssueLinks", value |-> Undefined,
              calls |-> [cs EXCEPT !.issueLinks = Issue_(cs.issueLinks)],
              logs |-> lg]

\* detailsMessage awaiting getAutoLinkedIssues before it calls
\* getPullRequestForCommit: only the first lookup is started.
DetailsMessage_Sequential ==
    /\ hpc = "idle"
    /\ hpc' = "awaitAll"
    /\ diffUris' = IF isUncommitted THEN "pending" ELSE "undefined"
    /\ LET i == StartIssues(calls, logs)
       IN /\ ipc' = i.ipc
          /\ issuesResult' = i.value
          /\ calls' = i.calls
          /\ logs' = i.logs
    /\ UNCHANGED <<ppc, prResult, operations>>
    /\ UNCHANGED <<config, remotes, maybeConnected, loggerDebug, isUncommitted,
                   hnow, roundResult>>
    /\ UNCHANGED vars

\* detailsMessage builds the array given to Promise.all: the four
\* expressions run in order, each async function up to its first await.
DetailsMessage ==
    /\ hpc = "idle"
    /\ hpc' = "awaitAll"
    /\ diffUris' = IF isUncommitted THEN "pending" ELSE "undefined"
    /\ LET i == StartIssues(calls, logs)
           p == StartPullRequest(i.calls, operations, i.logs)
       IN /\ ipc' = i.ipc
          /\ issuesResult' = i.value
          /\ ppc' = p.ppc
          /\ prResult' = p.value
          /\ calls' = p.calls
          /\ operations' = p.operations
          /\ logs' = p.logs
    /\ UNCHANGED <<config, remotes, maybeConnected, loggerDebug, isUncommitted,
                   hnow, roundResult>>
    /\ UNCHANGED vars

\* The CancellationError entries of a result of getIssueLinks.
Timeouts(v) == SelectSeq(v.entries, IsCancellationError)

\* A debug branch that returns only the issues that did not time out.
IssuesReturn_DebugDropsTimeouts(call, debug) ==
    IF call.state = "fulfilled"
        THEN IF call.value # Undefined /\ debug
                THEN IF Len(Timeouts(call.value)) # 0
                        THEN IssuesMap(SelectSeq(call.value.entries,
                                                 LAMBDA e : ~IsCancellationError(e)))
                        ELSE call.value
                ELSE call.value
        ELSE Undefined

\* What getAutoLinkedIssues returns once the awaited getIssueLinks settled.
IssuesReturn(call, debug) ==
    IF call.state = "fulfilled"
        THEN IF call.value # Undefined /\ debug
                THEN IF Len(Timeouts(call.value)) # 0
                        THEN call.value
                        ELSE call.value
                ELSE call.value
        ELSE Undefined

\* The Logger call it makes on that way.
IssuesLog(call, debug) ==
    IF call.state = "fulfilled"
        THEN IF call.value # Undefined /\ debug /\ Len(Timeouts(call.value)) # 0
                THEN LogEntry("getAutoLinkedIssues", "debug", "timed out")
                ELSE LogEntry("getAutoLinkedIssues", "debug", "completed")
        ELSE LogEntry("getAutoLinkedIssues", "error", "failed")

\* getAutoLinkedIssues resumes after `await getIssueLinks(...)`.
IssuesResume ==
    /\ ipc = "awaitIssueLinks"
    /\ calls.issueLinks.state \in {"fulfilled", "rejected"}
    /\ ipc' = "returned"
    /\ issuesResult' = IssuesReturn(calls.issueLinks, loggerDebug)
    /\ logs' = logs \cup {IssuesLog(calls.issueLinks, loggerDebug)}
    /\ UNCHANGED <<config, remotes, maybeConnected, loggerDebug, isUncommitted,
                   hpc, ppc, prResult, calls, operations, diffUris, hnow, roundResult>>
    /\ UNCHANGED vars

\* getPullRequestForCommit resumes after `await provider.isConnected()`,
\* which is outside the try block: a rejection leaves the function.
ConnectedResume ==
    /\ ppc = "awaitIsConnected"
    /\ calls.isConnected.state \in {"fulfilled", "rejected"}
    /\ IF calls.isConnected.state = "rejected"
          THEN /\ ppc' = "threw"
               /\ prResult' = calls.isConnected.value
               /\ UNCHANGED <<calls, operations, logs>>
          ELSE LET p == AfterConnected(calls.isConnected.value.message, calls,
                                       operations, logs)
               IN /\ ppc' = p.ppc
                  /\ prResult' = p.value
                  /\ calls' = p.calls
                  /\ operations' = p.operations
                  /\ logs' = p.logs
    /\ UNCHANGED <<config, remotes, maybeConnected, loggerDebug, isUncommitted,
                   hpc, ipc, issuesResult, diffUris, hnow, roundResult>>
    /\ UNCHANGED vars

\* The catch treating a CancellationError like any other error.
PullRequestReturn_DropsTimeout(call) ==
    IF call.state = "fulfilled" THEN call.value ELSE Undefined

\* The try / catch around `await Container.git.getPullRequestForCommit`:
\* the value returned for a settled call.
PullRequestReturn(call) ==
    IF call.state = "fulfilled" THEN call.value
    ELSE IF IsCancellationError(call.value) THEN call.value
    ELSE Undefined

PullRequestLog(call) ==
    IF call.state = "fulfilled"
        THEN LogEntry("getPullRequestForCommit", "debug", "completed")
    ELSE IF IsCancellationError(call.value)
        THEN LogEntry("getPullRequestForCommit", "debug", "timed out")
    ELSE LogEntry("getPullRequestForCommit", "error", "failed")

\* The catch block calling the lookup again after a timeout or a failure.
PullRequestResume_Retries ==
    /\ ppc = "awaitPullRequest"
    /\ calls.pullRequest.state \in {"fulfilled", "rejected"}
    /\ IF calls.pullRequest.state = "rejected"
          THEN /\ calls' = [calls EXCEPT !.pullRequest = Issue_(calls.pullRequest)]
               /\ UNCHANGED <<ppc, prResult>>
          ELSE /\ ppc' = "returned"
               /\ prResult' = PullRequestReturn(calls.pullRequest)
               /\ UNCHANGED calls
    /\ logs' = logs \cup {PullRequestLog(calls.pullRequest)}
    /\ UNCHANGED <<config, remotes, maybeConnected, loggerDebug, isUncommitted,
                   hpc, ipc, issuesResult, operations, diffUris, hnow,
                   roundResult>>
    /\ UNCHANGED vars

\* getPullRequestForCommit whose catch rethrows what is not a
\* CancellationError.
PullRequestResume_Rethrows ==
    /\ ppc = "awaitPullRequest"
    /\ calls.pullRequest.state \in {"fulfilled", "rejected"}
    /\ IF calls.pullRequest.state = "rejected"
             /\ ~IsCancellationError(calls.pullRequest.value)
          THEN /\ ppc' = "threw"
               /\ prResult' = calls.pullRequest.value
               /\ logs' = logs \cup {PullRequestLog(calls.pullRequest)}
          ELSE /\ ppc' = "returned"
               /\ prResult' = PullRequestReturn(calls.pullRequest)
               /\ logs' = logs \cup {PullRequestLog(calls.pullRequest)}
    /\ UNCHANGED <<config, remotes, maybeConnected, loggerDebug, isUncommitted,
                   hpc, ipc, issuesResult, calls, operations, diffUris, hnow,
                   roundResult>>
    /\ UNCHANGED vars

\* getPullRequestForCommit resumes after the awaited lookup settled.
PullRequestResume ==
    /\ ppc = "awaitPullRequest"
    /\ calls.pullRequest.state \in {"fulfilled", "rejected"}
    /\ ppc' = "returned"
    /\ prResult' = PullRequestReturn(calls.pullRequest)
    /\ logs' = logs \cup {PullRequestLog(calls.pullRequest)}
    /\ UNCHANGED <<config, remotes, maybeConnected, loggerDebug, isUncommitted,
                   hpc, ipc, issuesResult, calls, operations, diffUris, hnow,
                   roundResult>>
    /\ UNCHANGED vars

\* Promise.all fulfils when every element has: detailsMessage goes on with
\* [previousLineDiffUris, autolinkedIssues, pr, presence].
RoundReturns ==
    /\ hpc = "awaitAll"
    /\ ipc = "returned" /\ ppc = "returned"
    /\ diffUris \in {"undefined", "fulfilled"}
    /\ hpc' = "returned"
    /\ roundResult' = <<issuesResult, prResult>>
    /\ UNCHANGED <<config, remotes, maybeConnected, loggerDebug, isUncommitted,
                   ipc, ppc, issuesResult, prResult, calls, operations, diffUris,
                   hnow, logs>>
    /\ UNCHANGED vars

\* Promise.all rejects as soon as one element rejects: detailsMessage throws.
RoundRejects ==
    /\ hpc = "awaitAll"
    /\ ppc = "threw" \/ diffUris = "rejected"
    /\ hpc' = "rejected"
    /\ UNCHANGED <<config, remotes, maybeConnected, loggerDebug, isUncommitted,
                   ipc, ppc, issuesResult, prResult, calls, operations, diffUris,
                   hnow, logs, roundResult>>
    /\ UNCHANGED vars

----------------------------------------------------------------------------
\* The collaborators of the round.

\* A pending call settles.
SettleCall(name, state, value) ==
    /\ calls[name].state = "pending"
    /\ calls' = [calls EXCEPT ![name].state = state, ![name].value = value]

\* Results of getIssueLinks: undefined, or a map with one entry per issue
\* query, an Issue or the CancellationError of the query that timed out.
IssueMaps ==
    UNION {{IssuesMap([i \in 1..n |->
                          IF es[i] = "Issue" THEN Issue
                          ELSE CancellationError(IssueQuery(i), "TIMED OUT")]) :
               es \in [1..n -> {"Issue", "CancellationError"}]} :
           n \in 0..MaxIssues}

\* getIssueLinks fulfils; a query can have timed out only when its timeout
\* has elapsed since the call.
IssueLinksResolves ==
    /\ \E v \in {Undefined} \cup IssueMaps :
          /\ (v # Undefined /\ Len(Timeouts(v)) # 0) =>
                hnow >= calls.issueLinks.issuedAt + timeout
          /\ SettleCall("issueLinks", "fulfilled", v)
    /\ UNCHANGED <<config, remotes, maybeConnected, loggerDebug, isUncommitted,
                   hpc, ipc, ppc, issuesResult, prResult, operations, diffUris,
                   hnow, logs, roundResult>>
    /\ UNCHANGED vars

IssueLinksRejects ==
    /\ SettleCall("issueLinks", "rejected", LookupError)
    /\ UNCHANGED <<config, remotes, maybeConnected, loggerDebug, isUncommitted,
                   hpc, ipc, ppc, issuesResult, prResult, operations, diffUris,
                   hnow, logs, roundResult>>
    /\ UNCHANGED vars

IsConnectedResolves ==
    /\ \E b \in BOOLEAN : SettleCall("isConnected", "fulfilled", BooleanValue(b))
    /\ UNCHANGED <<config, remotes, maybeConnected, loggerDebug, isUncommitted,
                   hpc, ipc, ppc, issuesResult, prResult, operations, diffUris,
                   hnow, logs, roundResult>>
    /\ UNCHANGED vars

IsConnectedRejects ==
    /\ SettleCall("isConnected", "rejected", LookupError)
    /\ UNCHANGED <<config, remotes, maybeConnected, loggerDebug, isUncommitted,
                   hpc, ipc, ppc, issuesResult, prResult, operations, diffUris,
                   hnow, logs, roundResult>>
    /\ UNCHANGED vars

\* The pull-request lookup answers in time, with a pull request or none.
PullRequestResolves ==
    /\ \E v \in {PullRequest, Undefined} : SettleCall("pullRequest", "fulfilled", v)
    /\ operations' = [operations EXCEPT !.pullRequest = "settled"]
    /\ UNCHANGED <<config, remotes, maybeConnected, loggerDebug, isUncommitted,
                   hpc, ipc, ppc, issuesResult, prResult, diffUris, hnow, logs,
                   roundResult>>
    /\ UNCHANGED vars

PullRequestRejects ==
    /\ SettleCall("pullRequest", "rejected", LookupError)
    /\ operations' = [operations EXCEPT !.pullRequest = "settled"]
    /\ UNCHANGED <<config, remotes, maybeConnected, loggerDebug, isUncommitted,
                   hpc, ipc, ppc, issuesResult, prResult, diffUris, hnow, logs,
                   roundResult>>
    /\ UNCHANGED vars

\* The lookup's own timeout elapses first: the call rejects with a
\* CancellationError holding the lookup, which goes on.
PullRequestTimesOut ==
    /\ hnow >= calls.pullRequest.issuedAt + PullRequestTimeout
    /\ SettleCall("pullRequest", "rejected", CancellationError("pullRequest", "TIMED OUT"))
    /\ UNCHANGED <<config, remotes, maybeConnected, loggerDebug, isUncommitted,
                   hpc, ipc, ppc, issuesResult, prResult, operations, diffUris,
                   hnow, logs, roundResult>>
    /\ UNCHANGED vars

\* The lookup that timed out completes later.
PullRequestCompletesLate ==
    /\ calls.pullRequest.state = "rejected"
    /\ operations.pullRequest = "pending"
    /\ operations' = [operations EXCEPT !.pullRequest = "settled"]
    /\ UNCHANGED <<config, remotes, maybeConnected, loggerDebug, isUncommitted,
                   hpc, ipc, ppc, issuesResult, prResult, calls, diffUris, hnow,
                   logs, roundResult>>
    /\ UNCHANGED vars

\* commit.getPreviousLineDiffUris settles.
DiffUrisSettles ==
    /\ diffUris = "pending"
    /\ diffUris' \in {"fulfilled", "rejected"}
    /\ UNCHANGED <<config, remotes, maybeConnected, loggerDebug, isUncommitted,
                   hpc, ipc, ppc, issuesResult, prResult, calls, operations, hnow,
                   logs, roundResult>>
    /\ UNCHANGED vars

\* Time passes while a collaborator is working on a call.
HTick ==
    /\ \E name \in DOMAIN calls : calls[name].state = "pending"
    /\ hnow + TickMs <= MaxHoverTime
    /\ hnow' = hnow + TickMs
    /\ UNCHANGED <<config, remotes, maybeConnected, loggerDebug, isUncommitted,
                   hpc, ipc, ppc, issuesResult, prResult, calls, operations,
                   diffUris, logs, roundResult>>
    /\ UNCHANGED vars

HNext ==
    \/ DetailsMessage
    \/ IssuesResume
    \/ ConnectedResume
    \/ PullRequestResume
    \/ RoundReturns
    \/ RoundRejects
    \/ IssueLinksResolves
    \/ IssueLinksRejects
    \/ IsConnectedResolves
    \/ IsConnectedRejects
    \/ PullRequestResolves
    \/ PullRequestRejects
    \/ PullRequestTimesOut
    \/ PullRequestCompletesLate
    \/ DiffUrisSettles
    \/ HTick

HoverSpec == HInit /\ [][HNext]_hvars

----------------------------------------------------------------------------
\* Vocabulary of the properties.

O == promises[promise]
W == promises[wrapper]
Called == pc = "called"
OnTimer == timeoutOrToken.kind = "number"
OnToken == timeoutOrToken.kind = "token"
NoOnDidCancel == options.onDidCancel = "<undefined>"

\* Position of an event in the log, 0 when it has not happened.
Pos(e) == IF \E i \in 1..Len(log) : log[i] = e
             THEN CHOOSE i \in 1..Len(log) : log[i] = e
             ELSE 0
SettledAt == IF Pos("fulfils") > 0 THEN Pos("fulfils") ELSE Pos("rejects")
BoundFired == Pos("bound") > 0
SettledBeforeBound == SettledAt > 0 /\ (BoundFired => SettledAt < Pos("bound"))
BoundBeforeSettled == BoundFired /\ (SettledAt > 0 => Pos("bound") < SettledAt)
PendingAtCall == Called /\ Head(log) = "call"

\* The operation's own outcome, as the events recorded it.
OwnState == IF Pos("fulfils") > 0 THEN "fulfilled" ELSE "rejected"
OwnValue == IF Pos("fulfils") > 0 THEN OpValue ELSE OpError

WHasOwnOutcome == SettledAt > 0 /\ W.state = OwnState /\ W.value = OwnValue
WHasCancellationError == W.state = "rejected" /\ IsCancellationError(W.value)
WHasCallbackOutcome ==
    /\ BoundFired
    /\ \/ options.onDidCancel = "resolve" /\ W.state = "fulfilled" /\ W.value = FallbackValue
       \/ options.onDidCancel = "reject" /\ W.state = "rejected" /\ W.value = CallbackError

----------------------------------------------------------------------------
\* C1 as stated: the wrapper settles at most once and its settlement is the
\* operation's own outcome or a CancellationError, for every options.
C1_SettlesOnceOwnOrCancellation ==
    /\ W.settles <= 1
    /\ Settled(W) => (WHasOwnOutcome \/ WHasCancellationError)

\* C1 amended: the wrapper settles at most once; its settlement is the
\* operation's own outcome, a CancellationError or, when options.onDidCancel
\* is supplied and the bound fired, the settlement that callback made; no
\* later event changes a settlement.
C1_SettlesOnce ==
    /\ [](/\ W.settles <= 1
          /\ Settled(W) => \/ WHasOwnOutcome /\ ~WHasCancellationError
                           \/ WHasCancellationError /\ NoOnDidCancel /\ BoundFired
                           \/ WHasCallbackOutcome)
    /\ [][Settled(W) => W' = W]_vars

\* The operation settled and the bound fired, and the wrapper kept the
\* CancellationError it had been rejected with.
C1_Witness ==
    /\ OnTimer /\ BoundBeforeSettled /\ SettledAt > 0
    /\ microtasks = <<>> /\ WHasCancellationError /\ W.settles = 1

\* C2: on a duration D > 0, when the operation settles before the timer
\* fires the wrapper takes the operation's value or its error unchanged, and
\* no CancellationError is made.
C2_OperationFirst ==
    (Called /\ OnTimer /\ timeoutOrToken.ms > 0 /\ SettledBeforeBound) =>
        /\ errorsCreated = 0
        /\ ~WHasCancellationError
        /\ Settled(W) => WHasOwnOutcome
        /\ microtasks = <<>> => Settled(W)

C2_Witness ==
    /\ OnTimer /\ timeoutOrToken.ms > 0 /\ log = <<"call", "rejects">>
    /\ W.state = "rejected" /\ W.value = OpError /\ now >= timerDue

\* C3: a CancellationError the wrapper is rejected with holds the very
\* promise passed to cancellable; making it leaves that promise as it was,
\* still able to settle, and its outcome is read through the field.
C3_ErrorKeepsOperation ==
    /\ [](WHasCancellationError =>
            /\ W.value.promise = promise
            /\ SettledAt > 0 => /\ promises[W.value.promise].state = OwnState
                                /\ promises[W.value.promise].value = OwnValue
            /\ SettledAt = 0 => /\ promises[W.value.promise].state = "pending"
                                /\ ENABLED OperationFulfils
                                /\ ENABLED OperationRejects)
    /\ [][errorsCreated' # errorsCreated => promises'[promise] = promises[promise]]_vars

\* The bound fired first, and the operation fulfilled afterwards.
C3_Witness ==
    /\ WHasCancellationError /\ log = <<"call", "bound", "fulfils">>
    /\ promises[W.value.promise].value = OpValue

\* C4: on a duration, once the operation has settled with the timer not yet
\* fired, the timeout callback never runs: no CancellationError is made and
\* onDidCancel is not called from then on, and the timer is cleared when the
\* settlement handler has run.
C4_TimerCleared ==
    /\ []((OnTimer /\ fulfilled) => timer \in {"cleared", "fired"})
    /\ [][(OnTimer /\ Called /\ Settled(O)) =>
            /\ timer' = "fired" => timer = "fired"
            /\ errorsCreated' = errorsCreated
            /\ onDidCancelCalls' = onDidCancelCalls]_vars

\* The delay has elapsed after the operation settled, with the timer cleared.
C4_Witness ==
    /\ OnTimer /\ SettledBeforeBound /\ timer = "cleared" /\ now > timerDue
    /\ ~BoundFired /\ microtasks = <<>>

\* C5 as stated: a cancellation signal that fires after the operation has
\* settled makes no CancellationError, does not call onDidCancel and leaves
\* the wrapper with the operation's outcome.
C5_LateCancellationIsNoOp ==
    (OnToken /\ BoundFired /\ SettledBeforeBound) =>
        /\ errorsCreated = 0
        /\ onDidCancelCalls = 0
        /\ Settled(W) => WHasOwnOutcome

\* C6 as stated: with a duration of 0 and an operation still pending at the
\* call, the wrapper settles with a CancellationError only.
C6_ZeroAlwaysCancels ==
    (OnTimer /\ timeoutOrToken.ms = 0 /\ NoOnDidCancel /\ PendingAtCall /\ Settled(W)) =>
        WHasCancellationError

\* C6 amended: with a duration of 0 and no onDidCancel, the wrapper settles
\* with a CancellationError exactly when the timeout callback runs before the
\* operation has settled; an operation already settled at the call always
\* gives the wrapper its own outcome, and so does one that settles before
\* the timeout callback has run.
C6_ZeroDelayRaces ==
    (Called /\ OnTimer /\ timeoutOrToken.ms = 0 /\ NoOnDidCancel) =>
        /\ ~PendingAtCall => errorsCreated = 0 /\ ~BoundFired
        /\ BoundFired => BoundBeforeSettled /\ WHasCancellationError
        /\ Settled(W) => (WHasCancellationError <=> BoundBeforeSettled)
        /\ (SettledBeforeBound /\ microtasks = <<>>) => WHasOwnOutcome

\* The zero-delay timer fired with the operation pending, before the clock moved.
C6_Witness ==
    /\ OnTimer /\ timeoutOrToken.ms = 0 /\ NoOnDidCancel
    /\ log = <<"call", "bound">> /\ now = 0 /\ WHasCancellationError

\* C7: when the bound fires before the operation settles, a supplied
\* onDidCancel is called once, no CancellationError is made, and what the
\* callback settled the wrapper with stays, whatever the operation does
\* later; without onDidCancel the wrapper is rejected with a
\* CancellationError holding the operation.
C7_OnDidCancel ==
    /\ onDidCancelCalls <= 1
    /\ ~NoOnDidCancel => errorsCreated = 0
    /\ (BoundBeforeSettled /\ ~NoOnDidCancel) =>
          /\ onDidCancelCalls = 1
          /\ ~WHasCancellationError
          /\ options.onDidCancel = "resolve" =>
                W.state = "fulfilled" /\ W.value = FallbackValue
          /\ options.onDidCancel = "reject" =>
                W.state = "rejected" /\ W.value = CallbackError
    /\ (BoundBeforeSettled /\ NoOnDidCancel) =>
          /\ onDidCancelCalls = 0
          /\ errorsCreated = 1
          /\ WHasCancellationError /\ W.value.promise = promise

\* The callback resolved with its fallback; the operation rejected
\* afterwards and its handler has run.
C7_Witness ==
    /\ options.onDidCancel = "resolve" /\ log = <<"call", "bound", "rejects">>
    /\ microtasks = <<>> /\ fulfilled
    /\ W.state = "fulfilled" /\ W.value = FallbackValue

\* C8: while the cancellation signal has not fired, the wrapper is pending
\* as long as the operation is, settles as the operation did once the
\* queued promise jobs have run, and neither a CancellationError nor a call
\* of onDidCancel happens.
C8_TokenNeverFires ==
    (Called /\ OnToken /\ ~tokenCancelled) =>
        /\ O.state = "pending" => W.state = "pending"
        /\ Settled(W) => W.state = O.state /\ W.value = O.value
        /\ (Settled(O) /\ microtasks = <<>>) => Settled(W)
        /\ errorsCreated = 0 /\ onDidCancelCalls = 0

C8_Witness ==
    /\ OnToken /\ ~tokenCancelled /\ log = <<"call", "fulfils">>
    /\ W.state = "fulfilled" /\ W.value = OpValue /\ now > 0

\* C9 as stated: a call arms exactly one bound, and once the wrapper has
\* settled no timer is pending and no listener is attached to the signal.
C9_BoundTornDown ==
    Called =>
        /\ armed = 1
        /\ Settled(W) => timer # "armed" /\ listeners = 0

\* C10: with a numeric timeout and no onDidCancel the wrapper has settled
\* when the timer has fired, and it does settle, whether or not the
\* operation ever settles.
C10_SettlesByTimeout ==
    /\ []((OnTimer /\ NoOnDidCancel /\ timer = "fired") => Settled(W))
    /\ (Called /\ OnTimer /\ NoOnDidCancel) ~> Settled(W)

\* The timer settled the wrapper while the operation was still pending.
C10_Witness ==
    /\ OnTimer /\ NoOnDidCancel /\ timeoutOrToken.ms > 0
    /\ O.state = "pending" /\ timer = "fired" /\ WHasCancellationError

\* C19 as stated: the reason text of a CancellationError is
\* options.cancelMessage whenever the caller supplied one, else 'TIMED OUT'
\* on a duration and 'CANCELLED' on a cancellation signal.
C19_ReasonIsSuppliedMessage ==
    WHasCancellationError =>
        W.value.message =
            IF options.cancelMessage # "<undefined>" THEN options.cancelMessage
            ELSE IF OnTimer THEN "TIMED OUT" ELSE "CANCELLED"

\* C19 amended: the reason text is options.cancelMessage when the caller
\* supplied a non-empty one, else 'TIMED OUT' on a duration and 'CANCELLED'
\* on a cancellation signal (an empty cancelMessage gives the default too);
\* apart from the text both carry the same error type and the operation.
C19_ReasonText ==
    WHasCancellationError =>
        /\ W.value.message =
              IF options.cancelMessage \notin {"<undefined>", ""}
                  THEN options.cancelMessage
                  ELSE IF OnTimer THEN "TIMED OUT" ELSE "CANCELLED"
        /\ W.value.type = "CancellationError"
        /\ W.value.promise = promise

\* A cancellation signal fired with a caller-supplied message.
C19_Witness ==
    /\ OnToken /\ options.cancelMessage = "custom"
    /\ WHasCancellationError /\ W.value.message = "custom"

\* C20: when the bound fired first and onDidCancel called neither resolve
\* nor reject, the wrapper is pending while the operation is, settles only
\* with the operation's own value or error, and does settle once the
\* operation has.
C20_NoopCallbackFollowsOperation ==
    /\ []((Called /\ options.onDidCancel = "noop" /\ BoundBeforeSettled) =>
            /\ onDidCancelCalls = 1
            /\ SettledAt = 0 => W.state = "pending"
            /\ Settled(W) => WHasOwnOutcome)
    /\ (options.onDidCancel = "noop" /\ BoundBeforeSettled /\ SettledAt > 0)
           ~> (Settled(W) /\ WHasOwnOutcome)

\* The timer fired, the callback did nothing, and the operation's later
\* value reached the wrapper.
C20_Witness ==
    /\ OnTimer /\ options.onDidCancel = "noop"
    /\ log = <<"call", "bound", "fulfils">>
    /\ W.state = "fulfilled" /\ W.value = OpValue

----------------------------------------------------------------------------
\* Vocabulary of the hover properties.

RoundStarted == hpc # "idle"
IssueLinksCalls == calls.issueLinks.count
PullRequestCalls == calls.pullRequest.count
IsConnectedCalls == calls.isConnected.count

\* The gates as the configuration and the remotes state them.
DefaultRemoteWithProvider ==
    \E i \in 1..Len(remotes) : remotes[i].default /\ remotes[i].provider # "null"
DefaultRemoteWithApi ==
    \E i \in 1..Len(remotes) : remotes[i].default /\ remotes[i].provider = "api"
IssuesGatedOut ==
    \/ ~config.autolinksEnabled
    \/ ~config.autolinksEnhanced
    \/ ~config.hasMessage
    \/ ~DefaultRemoteWithProvider
PullRequestGatedOut ==
    \/ ~config.pullRequestsEnabled
    \/ ~config.hasPullRequest
    \/ ~DefaultRemoteWithApi

\* C11: a lookup whose gate is false is never issued and its branch returns
\* undefined; with both gates false no collaborator is called at all and the
\* round receives undefined for both.
C11_GatedOutIsSkipped ==
    RoundStarted =>
        /\ IssuesGatedOut =>
              /\ IssueLinksCalls = 0
              /\ ipc = "returned" /\ issuesResult = Undefined
        /\ PullRequestGatedOut =>
              /\ PullRequestCalls = 0 /\ IsConnectedCalls = 0
              /\ ppc = "returned" /\ prResult = Undefined
        /\ (IssuesGatedOut /\ PullRequestGatedOut /\ hpc = "returned") =>
              roundResult = <<Undefined, Undefined>>

\* Both features are on and a connected remote with an API is the default,
\* yet the template names neither field group: the round returned with
\* nothing called.
C11_Witness ==
    /\ hpc = "returned"
    /\ config.autolinksEnabled /\ ~config.autolinksEnhanced /\ config.hasMessage
    /\ config.pullRequestsEnabled /\ ~config.hasPullRequest
    /\ DefaultRemoteWithApi /\ maybeConnected = "true"
    /\ IssueLinksCalls = 0 /\ PullRequestCalls = 0
    /\ roundResult = <<Undefined, Undefined>>

\* How a branch that has returned came out.
IssuesFailed ==
    /\ ipc = "returned" /\ calls.issueLinks.state = "rejected"
    /\ issuesResult = Undefined
    /\ LogEntry("getAutoLinkedIssues", "error", "failed") \in logs
IssuesTimedOut ==
    /\ ipc = "returned" /\ calls.issueLinks.state = "fulfilled"
    /\ issuesResult # Undefined /\ Len(Timeouts(issuesResult)) # 0
PullRequestFailed ==
    /\ ppc = "returned" /\ calls.pullRequest.state = "rejected"
    /\ prResult = Undefined
    /\ LogEntry("getPullRequestForCommit", "error", "failed") \in logs
PullRequestTimedOut ==
    /\ ppc = "returned" /\ calls.pullRequest.state = "rejected"
    /\ IsCancellationError(prResult)
GenuineError(call) == call.state = "rejected" /\ ~IsCancellationError(call.value)

\* C12: a lookup call that rejects with a genuine error never makes its
\* branch throw nor the round reject; the branch comes out Failed (undefined
\* and an error logged), which is not how a timed-out branch comes out, and
\* the round hands on what the other branch returned.
C12_LookupFailureIsContained ==
    /\ (GenuineError(calls.issueLinks) /\ ipc = "returned") =>
          IssuesFailed /\ ~IssuesTimedOut
    /\ GenuineError(calls.pullRequest) =>
          /\ ppc # "threw"
          /\ ppc = "returned" => PullRequestFailed /\ ~PullRequestTimedOut
    /\ hpc = "rejected" =>
          calls.isConnected.state = "rejected" \/ diffUris = "rejected"
    /\ hpc = "returned" =>
          /\ roundResult = <<issuesResult, prResult>>
          /\ calls.issueLinks.state = "fulfilled" => roundResult[1] = calls.issueLinks.value
          /\ calls.pullRequest.state = "fulfilled" => roundResult[2] = calls.pullRequest.value

\* The pull-request lookup failed, the issue lookup answered with an issue,
\* and the round returned with it.
C12_Witness ==
    /\ hpc = "returned" /\ PullRequestFailed
    /\ roundResult[1] = IssuesMap(<<Issue>>) /\ roundResult[2] = Undefined

\* C13 as stated: a failure at any step of one branch (the connectivity
\* check included) neither makes that branch throw nor the round reject, and
\* the round hands on the other branch's outcome.
C13_BranchFailureIsIsolated ==
    (\/ calls.isConnected.state = "rejected"
     \/ GenuineError(calls.pullRequest)
     \/ GenuineError(calls.issueLinks)) =>
        /\ ppc # "threw"
        /\ hpc = "rejected" => diffUris = "rejected"
        /\ hpc = "returned" => roundResult = <<issuesResult, prResult>>

\* C14 as stated: whenever the pull-request call is issued in a round whose
\* issue-links call was issued too, the issue-links call is still pending.
C14_IssuedWhileSiblingPending ==
    [][(calls'.pullRequest.count > calls.pullRequest.count /\ IssuesGate) =>
            calls'.issueLinks.state = "pending"]_hvars

\* C14 amended: with both gates passed the two branches are started in the
\* same step: the issue-links call and, as connectivity is known or not, the
\* pull-request call or the connectivity check are issued at the same time;
\* the pull-request call follows the connectivity check without waiting for
\* the issue-links call, which may have settled by then; each call's timeout
\* counts from its own issue; the round returns only when both branches have
\* returned and no issued call is pending.
C14_BranchesRunConcurrently ==
    /\ (RoundStarted /\ IssuesGate /\ PullRequestGate) =>
          /\ ipc # "idle" /\ ppc # "idle"
          /\ IssueLinksCalls = 1
          /\ maybeConnected = "true" =>
                /\ PullRequestCalls = 1
                /\ calls.pullRequest.issuedAt = calls.issueLinks.issuedAt
          /\ maybeConnected = "undefined" =>
                /\ IsConnectedCalls = 1
                /\ calls.isConnected.issuedAt = calls.issueLinks.issuedAt
          /\ (ppc = "awaitIsConnected" /\ calls.isConnected.state # "pending") =>
                ENABLED ConnectedResume
          /\ (calls.pullRequest.state = "pending"
                 /\ hnow >= calls.pullRequest.issuedAt + PullRequestTimeout) =>
                ENABLED PullRequestTimesOut
          /\ (calls.issueLinks.state = "pending" /\ ipc = "awaitIssueLinks")
                => ENABLED IssueLinksResolves
    /\ hpc = "returned" =>
          /\ ipc = "returned" /\ ppc = "returned"
          /\ \A name \in DOMAIN calls : calls[name].state # "pending"

\* The pull-request call was issued after the connectivity check, later
\* than the issue-links call, and both lookups are pending at once.
C14_Witness ==
    /\ calls.issueLinks.state = "pending" /\ calls.pullRequest.state = "pending"
    /\ calls.pullRequest.issuedAt > calls.issueLinks.issuedAt
    /\ hnow >= calls.issueLinks.issuedAt + timeout

\* C15: a pull-request lookup that timed out makes getPullRequestForCommit
\* return, not throw, the CancellationError whose promise is the lookup,
\* which is still there to be waited for; getAutoLinkedIssues returns the
\* map it received with every CancellationError entry in it; the round hands
\* both on.
C15_TimedOutKeepsHandle ==
    /\ (calls.pullRequest.state = "rejected"
           /\ IsCancellationError(calls.pullRequest.value)) =>
          /\ ppc \in {"awaitPullRequest", "returned"}
          /\ ppc = "returned" =>
                /\ prResult = calls.pullRequest.value
                /\ prResult.promise = "pullRequest"
                /\ operations[prResult.promise] \in {"pending", "settled"}
                /\ operations[prResult.promise] = "pending" =>
                      ENABLED PullRequestCompletesLate
    /\ (ipc = "returned" /\ calls.issueLinks.state = "fulfilled"
           /\ calls.issueLinks.value # Undefined
           /\ Len(Timeouts(calls.issueLinks.value)) # 0) =>
          /\ issuesResult = calls.issueLinks.value
          /\ Timeouts(issuesResult) = Timeouts(calls.issueLinks.value)
    /\ (hpc = "returned" /\ (PullRequestTimedOut \/ IssuesTimedOut)) =>
          roundResult = <<issuesResult, prResult>>

\* Both lookups timed out; the round returned the error holding the
\* pull-request lookup, still running, and the map with the timed-out query.
C15_Witness ==
    /\ hpc = "returned" /\ loggerDebug
    /\ IsCancellationError(roundResult[2]) /\ operations.pullRequest = "pending"
    /\ roundResult[1] # Undefined /\ Len(Timeouts(roundResult[1])) # 0

\* The cases of the pull-request lookup once it is wanted and a default
\* remote with a provider exists.
RemoteWithoutApi ==
    /\ PullRequestWanted(config)
    /\ DefaultRemoteWithProvider
    /\ ~HasApi(remotes, FindRemote(remotes))
FoundNotConnected ==
    /\ PullRequestWanted(config)
    /\ HasApi(remotes, FindRemote(remotes))
    /\ \/ maybeConnected = "false"
       \/ /\ maybeConnected = "undefined"
          /\ calls.isConnected.state = "fulfilled"
          /\ calls.isConnected.value = BooleanValue(FALSE)
IsRemote(v) == v # Undefined /\ v.type = "GitRemote"

\* C16 as stated: a default remote whose provider has no API, or is not
\* connected, makes the branch return that remote without issuing the lookup.
C16_BothCasesYieldRemote ==
    (ppc = "returned" /\ (RemoteWithoutApi \/ FoundNotConnected)) =>
        /\ PullRequestCalls = 0
        /\ prResult = RemoteValue(FindRemote(remotes))

\* C16: the lookup is issued in neither case; the branch returns the remote
\* only when its provider has the API and is found not connected, and
\* undefined, as for any skipped lookup, when the provider has no API (then
\* connectivity is not asked for either).
C16_RemoteOnlyWhenNotConnected ==
    /\ (RemoteWithoutApi \/ FoundNotConnected) => PullRequestCalls = 0
    /\ (ppc = "returned" /\ FoundNotConnected) =>
          /\ prResult = RemoteValue(FindRemote(remotes))
          /\ IsRemote(prResult)
          /\ remotes[prResult.index].default
          /\ remotes[prResult.index].provider = "api"
    /\ (RoundStarted /\ RemoteWithoutApi) =>
          /\ ppc = "returned" /\ prResult = Undefined
          /\ IsConnectedCalls = 0
    /\ (ppc = "returned" /\ IsRemote(prResult)) => FoundNotConnected

\* The round returned the remote after isConnected() answered false.
C16_Witness ==
    /\ hpc = "returned" /\ FoundNotConnected /\ maybeConnected = "undefined"
    /\ IsRemote(roundResult[2]) /\ PullRequestCalls = 0

\* C17: in one round getIssueLinks, isConnected and getPullRequestForCommit
\* are each called at most once; a branch whose call timed out or failed has
\* returned on that one call, and a call is only ever made where none was
\* made before.
C17_IssuedAtMostOnce ==
    /\ \A n \in DOMAIN calls : calls[n].count <= 1
    /\ \A n \in DOMAIN calls : calls[n].state # "none" <=> calls[n].count = 1
    /\ (ipc = "returned" /\ (IssuesFailed \/ IssuesTimedOut)) => IssueLinksCalls = 1
    /\ (ppc = "returned" /\ (PullRequestFailed \/ PullRequestTimedOut)) =>
          PullRequestCalls = 1

\* The round is over after the pull-request lookup timed out and the issue
\* lookup failed, each called once.
C17_Witness ==
    /\ hpc = "returned" /\ PullRequestTimedOut /\ IssuesFailed
    /\ PullRequestCalls = 1 /\ IssueLinksCalls = 1

\* C18: what getAutoLinkedIssues returned is what it returns at either
\* logger level for the same configuration, remotes and getIssueLinks
\* outcome, queries that timed out included, and the round hands on that
\* value; the logger level shows in the log entries only.
C18_LoggingIsObservational ==
    /\ ipc = "returned" =>
          \A debug \in BOOLEAN :
              issuesResult = IF IssuesGate
                                THEN IssuesReturn(calls.issueLinks, debug)
                                ELSE Undefined
    /\ hpc = "returned" =>
          \A debug \in BOOLEAN :
              roundResult[1] = IF IssuesGate
                                  THEN IssuesReturn(calls.issueLinks, debug)
                                  ELSE Undefined

\* At debug level, with a query that timed out: the timeout was logged and
\* the map came back as it would have without debugging.
C18_Witness ==
    /\ ipc = "returned" /\ loggerDebug /\ IssuesTimedOut
    /\ LogEntry("getAutoLinkedIssues", "debug", "timed out") \in logs
    /\ issuesResult = IssuesReturn(calls.issueLinks, FALSE)

====
